---------------------------- MODULE Spec2Model ----------------------------
(* Model of src/src/components/Dashboard.tsx: the Dashboard component's     *)
(* React state, the asynchronous loadData pipeline started by its mount     *)
(* effect, and the aggregation it performs over the two CSV feeds.          *)
(*                                                                          *)
(* JavaScript strings are sequences of non-empty pieces (single characters  *)
(* where the code builds or compares them character by character).          *)
(* JavaScript values that can be a number, a string, an object or undefined *)
(* are records [t, n, s]: the type, the number, the string (or an object's  *)
(* string conversion).                                                      *)
EXTENDS Integers, Sequences, FiniteSets, TLC

\* Bound: the number of data lines of the two CSV bodies together.
MaxRows == 2

Feeds == {"adas", "ads"}

-----------------------------------------------------------------------------
(* JavaScript values *)

Num(k) == [t |-> "number", n |-> k, s |-> <<>>]

Str(pieces) == [t |-> "string", n |-> 0, s |-> pieces]

Obj(pieces) == [t |-> "object", n |-> 0, s |-> pieces]

Undefined == [t |-> "undefined", n |-> 0, s |-> <<>>]

\* A CSV cell as a JavaScript string ("" is the empty string).
StrOf(cell) == Str(IF cell = "" THEN <<>> ELSE <<cell>>)

\* ToBoolean, as used by `severity && ...`, `x || 0` and `if (error)`.
Truthy(v) ==
  CASE v.t = "number" -> v.n # 0
    [] v.t = "string" -> v.s # <<>>
    [] v.t = "object" -> TRUE
    [] OTHER -> FALSE

DigitChar == <<"0", "1", "2", "3", "4", "5", "6", "7", "8", "9">>

RECURSIVE NatStr(_)
\* String(n) for an integer n >= 0: its decimal digits, no padding.
NatStr(k) ==
  IF k < 10 THEN <<DigitChar[k + 1]>>
  ELSE NatStr(k \div 10) \o <<DigitChar[(k % 10) + 1]>>

\* String(n) for any integer.
NumStr(k) == IF k < 0 THEN <<"-">> \o NatStr(-k) ELSE NatStr(k)

\* ToString of a value that takes part in a `+`.
ToStringJS(v) ==
  CASE v.t = "number" -> NumStr(v.n)
    [] v.t = "undefined" -> <<"undefined">>
    [] OTHER -> v.s

\* The binary + of JavaScript: addition of two numbers, else concatenation.
JSAdd(a, b) ==
  IF a.t = "number" /\ b.t = "number" THEN Num(a.n + b.n)
  ELSE Str(ToStringJS(a) \o ToStringJS(b))

\* `x || 0`
OrZero(v) == IF Truthy(v) THEN v ELSE Num(0)

RECURSIVE PadStart(_, _, _)
\* String.prototype.padStart with a one-character pad string.
PadStart(str, targetLen, pad) ==
  IF Len(str) >= targetLen THEN str
  ELSE PadStart(<<pad>> \o str, targetLen, pad)

-----------------------------------------------------------------------------
(* The input: CSV bodies, Papa.parse, new Date *)

HeaderLine == <<"Incident Date", "Highest Injury Severity Alleged">>

\* Incident Date cells the feeds may hold.
DateStrings == {"", "2021-05-15", "2021-06-15", "0999-06-15"}

\* Highest Injury Severity Alleged cells the feeds may hold.
SeverityStrings ==
  {"", "Unknown", "Minor", "Fatality", "constructor", "__proto__"}

\* A data line, already split at its delimiters: both cells, or the date
\* cell alone (a row shorter than the header). <<"">> is the empty line.
DataLines ==
  {<<d>> : d \in DateStrings}
    \cup {<<d, s>> : d \in DateStrings, s \in SeverityStrings}

\* The bodies a feed can have with at most k data lines.
Texts(k) ==
  UNION {{<<HeaderLine>> \o [i \in 1..m |-> body[i]] : body \in [1..m -> DataLines]}
           : m \in 0..k}

Min(a, b) == IF a < b THEN a ELSE b

\* One row of Papa.parse(..., {header: true}): the header's names keyed to
\* the line's cells; a name whose cell is missing is absent from the row.
PapaRow(header, line) ==
  [h \in {header[i] : i \in 1..Min(Len(header), Len(line))} |->
     line[CHOOSE i \in 1..Len(header) : header[i] = h]]

RECURSIVE PapaRows(_, _)
PapaRows(header, lines) ==
  IF lines = <<>> THEN <<>>
  ELSE IF Head(lines) = <<"">> THEN PapaRows(header, Tail(lines))
  ELSE <<PapaRow(header, Head(lines))>> \o PapaRows(header, Tail(lines))

\* Papa.parse(text, {header: true, skipEmptyLines: true}).data
PapaParse(text) ==
  IF text = <<>> THEN <<>> ELSE PapaRows(Head(text), Tail(text))

\* row[name]
RowGet(row, name) ==
  IF name \in DOMAIN row THEN StrOf(row[name]) ELSE Undefined

InvalidDate == [valid |-> FALSE, year |-> 0, month |-> 0]

\* new Date(v): the local year and 0-based month of the date v denotes, or
\* Invalid Date. Days are mid-month, so no time zone moves the month.
NewDate(v) ==
  CASE v = StrOf("2021-05-15") -> [valid |-> TRUE, year |-> 2021, month |-> 4]
    [] v = StrOf("2021-06-15") -> [valid |-> TRUE, year |-> 2021, month |-> 5]
    [] v = StrOf("0999-06-15") -> [valid |-> TRUE, year |-> 999, month |-> 5]
    [] OTHER -> InvalidDate

\* isNaN(date.getTime())
IsNaNTime(date) == ~date.valid

MONTHS ==
  <<"Jan", "Feb", "Mar", "Apr", "May", "Jun",
    "Jul", "Aug", "Sep", "Oct", "Nov", "Dec">>

formatDate(date) == <<MONTHS[date.month + 1], " ">> \o NumStr(date.year)

formatAxisDate(date) ==
  PadStart(NumStr(date.month + 1), 2, "0") \o <<"-">> \o NumStr(date.year)

\* `${date.getFullYear()}-${String(date.getMonth() + 1).padStart(2, '0')}`
SortKeyOf(date) ==
  NumStr(date.year) \o <<"-">> \o PadStart(NumStr(date.month + 1), 2, "0")

-----------------------------------------------------------------------------
(* Objects used as maps: own properties in insertion order, over Object.prototype *)

\* What a plain object inherits under a name it does not own.
ObjectPrototype(name) ==
  CASE name = "constructor" -> Obj(<<"function Object() { [native code] }">>)
    [] name = "__proto__" -> Obj(<<"[object Object]">>)
    [] OTHER -> Undefined

\* obj[name], obj a sequence of <<name, value>> own properties.
ObjectGet(obj, name) ==
  IF \E i \in 1..Len(obj) : obj[i][1] = name
  THEN obj[CHOOSE i \in 1..Len(obj) : obj[i][1] = name][2]
  ELSE ObjectPrototype(name)

\* obj[name] = v. Assigning a primitive to __proto__ runs the inherited
\* setter, which ignores it: no own property is created.
ObjectSet(obj, name, v) ==
  IF name = "__proto__" THEN obj
  ELSE IF \E i \in 1..Len(obj) : obj[i][1] = name
  THEN [obj EXCEPT ![CHOOSE i \in 1..Len(obj) : obj[i][1] = name] = <<name, v>>]
  ELSE Append(obj, <<name, v>>)

-----------------------------------------------------------------------------
(* loadData: monthly aggregation (lines 81-96) *)

\* monthlyAccidents[key]?.count || 0
PrevCount(acc, key) ==
  IF \E i \in 1..Len(acc) : acc[i].sortKey = key
  THEN acc[CHOOSE i \in 1..Len(acc) : acc[i].sortKey = key].count
  ELSE 0

\* MonthlyStep with `count: 1` in place of the increment.
MonthlyStep_ResetCount(acc, row) ==
  LET date == NewDate(RowGet(row, "Incident Date")) IN
  IF IsNaNTime(date) THEN acc
  ELSE LET key == SortKeyOf(date)
           bucket == [date |-> formatDate(date),
                      axisDate |-> formatAxisDate(date),
                      count |-> 1,
                      sortKey |-> key]
       IN IF \E i \in 1..Len(acc) : acc[i].sortKey = key
          THEN [acc EXCEPT ![CHOOSE i \in 1..Len(acc) : acc[i].sortKey = key] = bucket]
          ELSE Append(acc, bucket)

\* The body of the forEach: monthlyAccidents after one more row. The
\* object's values are kept in key insertion order, each under its sortKey.
MonthlyStep(acc, row) ==
  LET date == NewDate(RowGet(row, "Incident Date")) IN
  IF IsNaNTime(date) THEN acc
  ELSE LET key == SortKeyOf(date)
           bucket == [date |-> formatDate(date),
                      axisDate |-> formatAxisDate(date),
                      count |-> PrevCount(acc, key) + 1,
                      sortKey |-> key]
       IN IF \E i \in 1..Len(acc) : acc[i].sortKey = key
          THEN [acc EXCEPT ![CHOOSE i \in 1..Len(acc) : acc[i].sortKey = key] = bucket]
          ELSE Append(acc, bucket)

RECURSIVE MonthlyAccidents(_)
\* Object.values(monthlyAccidents) after the forEach over rows.
MonthlyAccidents(rows) ==
  IF rows = <<>> THEN <<>>
  ELSE MonthlyStep(MonthlyAccidents(SubSeq(rows, 1, Len(rows) - 1)), rows[Len(rows)])

\* The collation order of the characters a sortKey is made of.
CollationOrder == <<"-", "0", "1", "2", "3", "4", "5", "6", "7", "8", "9">>

CollationWeight(c) == CHOOSE i \in 1..Len(CollationOrder) : CollationOrder[i] = c

RECURSIVE LocaleCompare(_, _)
\* a.localeCompare(b): negative, zero or positive.
LocaleCompare(a, b) ==
  IF a = <<>> /\ b = <<>> THEN 0
  ELSE IF a = <<>> THEN -1
  ELSE IF b = <<>> THEN 1
  ELSE IF CollationWeight(Head(a)) < CollationWeight(Head(b)) THEN -1
  ELSE IF CollationWeight(Head(a)) > CollationWeight(Head(b)) THEN 1
  ELSE LocaleCompare(Tail(a), Tail(b))

\* CompareBuckets with its operands swapped.
CompareBuckets_Reversed(a, b) == LocaleCompare(b.sortKey, a.sortKey)

\* The comparator of the sort.
CompareBuckets(a, b) == LocaleCompare(a.sortKey, b.sortKey)

\* sorted with b put before the first element that compares greater.
InsertBucket(sorted, b) ==
  LET after == {i \in 1..Len(sorted) : CompareBuckets(sorted[i], b) > 0}
      at == IF after = {} THEN Len(sorted) + 1
            ELSE CHOOSE i \in after : \A j \in after : i <= j
  IN SubSeq(sorted, 1, at - 1) \o <<b>> \o SubSeq(sorted, at, Len(sorted))

RECURSIVE SortBuckets(_)
\* Array.prototype.sort with CompareBuckets (a stable sort).
SortBuckets(arr) ==
  IF arr = <<>> THEN <<>>
  ELSE InsertBucket(SortBuckets(SubSeq(arr, 1, Len(arr) - 1)), arr[Len(arr)])

\* monthlyDataArray
MonthlyDataArray(adasRows, adsRows) ==
  SortBuckets(MonthlyAccidents(adasRows \o adsRows))

-----------------------------------------------------------------------------
(* loadData: injury aggregation of one feed (lines 99-117, 122-123) *)

\* The reducer: acc after one more row.
InjuryStep(acc, row) ==
  LET severity == RowGet(row, "Highest Injury Severity Alleged") IN
  IF Truthy(severity) /\ severity # StrOf("Unknown")
  THEN ObjectSet(acc, severity.s[1],
                 JSAdd(OrZero(ObjectGet(acc, severity.s[1])), Num(1)))
  ELSE acc

RECURSIVE InjuryReduce(_)
\* rows.reduce(reducer, {})
InjuryReduce(rows) ==
  IF rows = <<>> THEN <<>>
  ELSE InjuryStep(InjuryReduce(SubSeq(rows, 1, Len(rows) - 1)), rows[Len(rows)])

\* Object.entries(obj).map(([name, value]) => ({ name, value }))
EntriesToItems(obj) ==
  [i \in 1..Len(obj) |-> [name |-> obj[i][1], value |-> obj[i][2]]]

\* adasInjuriesData / adsInjuriesData
InjuriesData(rows) == EntriesToItems(InjuryReduce(rows))

RECURSIVE SumValues(_)
\* items.reduce((sum, item) => sum + item.value, 0)
SumValues(items) ==
  IF items = <<>> THEN Num(0)
  ELSE JSAdd(SumValues(SubSeq(items, 1, Len(items) - 1)), items[Len(items)].value)

-----------------------------------------------------------------------------
(* The Dashboard component and its loadData run *)

VARIABLES
  monthlyData, adasInjuries, adsInjuries, totalADAS, totalADS, isLoading, error,
  pc, fetchState, textState, adasText, adsText, caught,
  adasData, adsData, monthlyDataArray, adasInjuriesData, adsInjuriesData

reactState ==
  <<monthlyData, adasInjuries, adsInjuries, totalADAS, totalADS, isLoading, error>>

network == <<fetchState, textState, adasText, adsText>>

locals == <<adasData, adsData, monthlyDataArray, adasInjuriesData, adsInjuriesData>>

vars == <<reactState, pc, network, caught, locals>>

Null == [t |-> "null", n |-> 0, s |-> <<>>]

\* error.message of what fetch or Response.text() rejects with.
RejectionMessages == {"Failed to fetch", "Load failed"}

\* The useState initial values; loadData has not started.
Init ==
  /\ monthlyData = <<>>
  /\ adasInjuries = <<>>
  /\ adsInjuries = <<>>
  /\ totalADAS = Num(0)
  /\ totalADS = Num(0)
  /\ isLoading = TRUE
  /\ error = Null
  /\ pc = "init"
  /\ fetchState = [f \in Feeds |-> "idle"]
  /\ textState = [f \in Feeds |-> "idle"]
  /\ adasText = <<>>
  /\ adsText = <<>>
  /\ caught = Null
  /\ adasData = <<>>
  /\ adsData = <<>>
  /\ monthlyDataArray = <<>>
  /\ adasInjuriesData = <<>>
  /\ adsInjuriesData = <<>>

\* What the component renders.
View ==
  IF isLoading THEN "loading"
  ELSE IF Truthy(error) THEN "error"
  ELSE "ready"

\* loadData is suspended at an await, or over: the event loop can run the
\* settlement of a promise.
Suspended == pc \in {"awaitAll", "awaitAdasText", "awaitAdsText", "done"}

\* Mount with the effect's dependency array left out: it runs after every
\* render, and so again when a run is over.
Mount_EveryRender ==
  /\ pc \in {"init", "done"}
  /\ isLoading' = TRUE
  /\ error' = Null
  /\ pc' = "fetchAdas"
  /\ UNCHANGED <<monthlyData, adasInjuries, adsInjuries, totalADAS, totalADS,
                 network, caught, locals>>

\* The effect runs once after the first render and calls loadData, which
\* runs up to the first fetch.
Mount ==
  /\ pc = "init"
  /\ isLoading' = TRUE
  /\ error' = Null
  /\ pc' = "fetchAdas"
  /\ UNCHANGED <<monthlyData, adasInjuries, adsInjuries, totalADAS, totalADS,
                 network, caught, locals>>

\* fetch('/SGO202101_Incident_Reports_ADAS.csv')
FetchAdas ==
  /\ pc = "fetchAdas"
  /\ fetchState' = [fetchState EXCEPT !["adas"] = "pending"]
  /\ pc' = "fetchAds"
  /\ UNCHANGED <<reactState, textState, adasText, adsText, caught, locals>>

\* fetch('/SGO202101_Incident_Reports_ADS.csv'), then await Promise.all
FetchAds ==
  /\ pc = "fetchAds"
  /\ fetchState' = [fetchState EXCEPT !["ads"] = "pending"]
  /\ pc' = "awaitAll"
  /\ UNCHANGED <<reactState, textState, adasText, adsText, caught, locals>>

\* A fetch settles: a response with a success status, a response with
\* another status, or a rejection.
FetchSettle(f) ==
  /\ Suspended
  /\ fetchState[f] = "pending"
  /\ \E outcome \in {"ok", "notok", "rejected"} :
       fetchState' = [fetchState EXCEPT ![f] = outcome]
  /\ UNCHANGED <<reactState, pc, textState, adasText, adsText, caught, locals>>

\* Promise.all: fulfilled once every fetch is.
PromiseAllFulfilled == \A f \in Feeds : fetchState[f] \in {"ok", "notok"}

\* Promise.all: rejected as soon as one fetch is.
PromiseAllRejected == \E f \in Feeds : fetchState[f] = "rejected"

\* ResponsesOk with the second operand left out.
ResponsesOk_AdasOnly == fetchState["adas"] = "ok"

\* adasResponse.ok && adsResponse.ok
ResponsesOk == fetchState["adas"] = "ok" /\ fetchState["ads"] = "ok"

\* Both responses are in: throw on a status that is not a success, else
\* start decoding the ADAS body.
AfterFetch ==
  /\ pc = "awaitAll"
  /\ PromiseAllFulfilled
  /\ IF ResponsesOk
     THEN /\ textState' = [textState EXCEPT !["adas"] = "pending"]
          /\ pc' = "awaitAdasText"
          /\ UNCHANGED caught
     ELSE /\ caught' = StrOf("Failed to fetch CSV files")
          /\ pc' = "catch"
          /\ UNCHANGED textState
  /\ UNCHANGED <<reactState, fetchState, adasText, adsText, locals>>

\* A fetch rejected: the await throws what it rejected with.
FetchRejected ==
  /\ pc = "awaitAll"
  /\ PromiseAllRejected
  /\ \E msg \in RejectionMessages : caught' = StrOf(msg)
  /\ pc' = "catch"
  /\ UNCHANGED <<reactState, network, locals>>

\* The data lines of the bodies decoded so far.
UsedRows ==
  (IF adasText = <<>> THEN 0 ELSE Len(adasText) - 1)
    + (IF adsText = <<>> THEN 0 ELSE Len(adsText) - 1)

\* response.text() fulfils with the body.
TextFulfil(f) ==
  /\ Suspended
  /\ textState[f] = "pending"
  /\ textState' = [textState EXCEPT ![f] = "done"]
  /\ \E text \in Texts(MaxRows - UsedRows) :
       IF f = "adas"
       THEN adasText' = text /\ UNCHANGED adsText
       ELSE adsText' = text /\ UNCHANGED adasText
  /\ UNCHANGED <<reactState, pc, fetchState, caught, locals>>

\* response.text() rejects.
TextReject(f) ==
  /\ Suspended
  /\ textState[f] = "pending"
  /\ textState' = [textState EXCEPT ![f] = "failed"]
  /\ UNCHANGED <<reactState, pc, fetchState, adasText, adsText, caught, locals>>

\* adasText is in: start decoding the ADS body.
AfterAdasText ==
  /\ pc = "awaitAdasText"
  /\ textState["adas"] = "done"
  /\ textState' = [textState EXCEPT !["ads"] = "pending"]
  /\ pc' = "awaitAdsText"
  /\ UNCHANGED <<reactState, fetchState, adasText, adsText, caught, locals>>

\* The await of a body that could not be decoded throws.
TextRejected ==
  /\ \/ pc = "awaitAdasText" /\ textState["adas"] = "failed"
     \/ pc = "awaitAdsText" /\ textState["ads"] = "failed"
  /\ \E msg \in RejectionMessages : caught' = StrOf(msg)
  /\ pc' = "catch"
  /\ UNCHANGED <<reactState, network, locals>>

\* AdsTextReady with the await left out: the decode need only have started.
AdsTextReady_NotAwaited == textState["ads"] \in {"pending", "done"}

\* The await of adsResponse.text() has its value.
AdsTextReady == textState["ads"] = "done"

\* adsText is in: parse both bodies and compute the three aggregates.
ParseAndAggregate ==
  /\ pc = "awaitAdsText"
  /\ AdsTextReady
  /\ adasData' = PapaParse(adasText)
  /\ adsData' = PapaParse(adsText)
  /\ monthlyDataArray' = MonthlyDataArray(adasData', adsData')
  /\ adasInjuriesData' = InjuriesData(adasData')
  /\ adsInjuriesData' = InjuriesData(adsData')
  /\ pc' = "setMonthlyData"
  /\ UNCHANGED <<reactState, network, caught>>

\* SetMonthlyData with setIsLoading(false) moved up beside it.
SetMonthlyData_ThenReady ==
  /\ pc = "setMonthlyData"
  /\ monthlyData' = monthlyDataArray
  /\ isLoading' = FALSE
  /\ pc' = "setAdasInjuries"
  /\ UNCHANGED <<adasInjuries, adsInjuries, totalADAS, totalADS, error,
                 network, caught, locals>>

SetMonthlyData ==
  /\ pc = "setMonthlyData"
  /\ monthlyData' = monthlyDataArray
  /\ pc' = "setAdasInjuries"
  /\ UNCHANGED <<adasInjuries, adsInjuries, totalADAS, totalADS, isLoading, error,
                 network, caught, locals>>

SetAdasInjuries ==
  /\ pc = "setAdasInjuries"
  /\ adasInjuries' = adasInjuriesData
  /\ pc' = "setAdsInjuries"
  /\ UNCHANGED <<monthlyData, adsInjuries, totalADAS, totalADS, isLoading, error,
                 network, caught, locals>>

SetAdsInjuries ==
  /\ pc = "setAdsInjuries"
  /\ adsInjuries' = adsInjuriesData
  /\ pc' = "setTotalADAS"
  /\ UNCHANGED <<monthlyData, adasInjuries, totalADAS, totalADS, isLoading, error,
                 network, caught, locals>>

SetTotalADAS ==
  /\ pc = "setTotalADAS"
  /\ totalADAS' = SumValues(adasInjuriesData)
  /\ pc' = "setTotalADS"
  /\ UNCHANGED <<monthlyData, adasInjuries, adsInjuries, totalADS, isLoading, error,
                 network, caught, locals>>

SetTotalADS ==
  /\ pc = "setTotalADS"
  /\ totalADS' = SumValues(adsInjuriesData)
  /\ pc' = "setIsLoading"
  /\ UNCHANGED <<monthlyData, adasInjuries, adsInjuries, totalADAS, isLoading, error,
                 network, caught, locals>>

\* setIsLoading(false) at the end of the try block.
SetIsLoading ==
  /\ pc = "setIsLoading"
  /\ isLoading' = FALSE
  /\ pc' = "done"
  /\ UNCHANGED <<monthlyData, adasInjuries, adsInjuries, totalADAS, totalADS, error,
                 network, caught, locals>>

\* catch: setError(error.message)
CatchSetError ==
  /\ pc = "catch"
  /\ error' = caught
  /\ pc' = "catchSetIsLoading"
  /\ UNCHANGED <<monthlyData, adasInjuries, adsInjuries, totalADAS, totalADS, isLoading,
                 network, caught, locals>>

\* catch: setIsLoading(false)
CatchSetIsLoading ==
  /\ pc = "catchSetIsLoading"
  /\ isLoading' = FALSE
  /\ pc' = "done"
  /\ UNCHANGED <<monthlyData, adasInjuries, adsInjuries, totalADAS, totalADS, error,
                 network, caught, locals>>

Next ==
  \/ Mount
  \/ FetchAdas
  \/ FetchAds
  \/ \E f \in Feeds : FetchSettle(f)
  \/ AfterFetch
  \/ FetchRejected
  \/ \E f \in Feeds : TextFulfil(f)
  \/ \E f \in Feeds : TextReject(f)
  \/ AfterAdasText
  \/ TextRejected
  \/ ParseAndAggregate
  \/ SetMonthlyData
  \/ SetAdasInjuries
  \/ SetAdsInjuries
  \/ SetTotalADAS
  \/ SetTotalADS
  \/ SetIsLoading
  \/ CatchSetError
  \/ CatchSetIsLoading

Spec == Init /\ [][Next]_vars

-----------------------------------------------------------------------------
(* Vocabulary of the properties *)

SetterPcs ==
  {"setMonthlyData", "setAdasInjuries", "setAdsInjuries", "setTotalADAS",
   "setTotalADS", "setIsLoading"}

\* The parse and the aggregation have run.
Aggregated == pc \in SetterPcs \/ (pc = "done" /\ caught = Null)

\* setMonthlyData has run.
MonthlyStored == Aggregated /\ pc # "setMonthlyData"

\* loadData returned from its try block.
Succeeded == pc = "done" /\ caught = Null

DateOf(row) == NewDate(RowGet(row, "Incident Date"))

\* The rows whose Incident Date parses.
DatedRows(rows) == {i \in 1..Len(rows) : DateOf(rows[i]).valid}

KeysOf(rows) == {SortKeyOf(DateOf(rows[i])) : i \in DatedRows(rows)}

CountFor(rows, key) ==
  Cardinality({i \in DatedRows(rows) : SortKeyOf(DateOf(rows[i])) = key})

RECURSIVE SumCounts(_)
SumCounts(buckets) ==
  IF buckets = <<>> THEN 0 ELSE Head(buckets).count + SumCounts(Tail(buckets))

SeverityField == "Highest Injury Severity Alleged"

\* The rows whose severity is present, non-empty and not "Unknown".
CountedRows(rows) ==
  {i \in 1..Len(rows) :
     SeverityField \in DOMAIN rows[i] /\ rows[i][SeverityField] \notin {"", "Unknown"}}

CountedSeverities(rows) == {rows[i][SeverityField] : i \in CountedRows(rows)}

SeverityCount(rows, name) ==
  Cardinality({i \in CountedRows(rows) : rows[i][SeverityField] = name})

\* The code unit of a character of a sortKey.
CodeUnit(c) ==
  44 + (CHOOSE i \in 1..13 :
          <<"-", ".", "/", "0", "1", "2", "3", "4", "5", "6", "7", "8", "9">>[i] = c)

RECURSIVE LexLess(_, _)
\* a < b in lexicographic order of code units.
LexLess(a, b) ==
  IF b = <<>> THEN FALSE
  ELSE IF a = <<>> THEN TRUE
  ELSE IF CodeUnit(Head(a)) # CodeUnit(Head(b)) THEN CodeUnit(Head(a)) < CodeUnit(Head(b))
  ELSE LexLess(Tail(a), Tail(b))

-----------------------------------------------------------------------------
(* C1 *)

MonthlyExact(buckets) ==
  LET keys == KeysOf(adasData) \cup KeysOf(adsData) IN
  /\ \A k \in keys : Cardinality({i \in 1..Len(buckets) : buckets[i].sortKey = k}) = 1
  /\ \A i \in 1..Len(buckets) :
       /\ buckets[i].sortKey \in keys
       /\ buckets[i].count =
            CountFor(adasData, buckets[i].sortKey) + CountFor(adsData, buckets[i].sortKey)
  /\ SumCounts(buckets) = Cardinality(DatedRows(adasData)) + Cardinality(DatedRows(adsData))

\* C1: the monthly output holds exactly one bucket per sortKey that a record
\* with a parseable date of either feed maps to and no other bucket, each
\* bucket counts the records of both feeds that map to its key, and the
\* counts add up to the number of records with a parseable date.
C1_MonthlyBuckets ==
  /\ Aggregated => MonthlyExact(monthlyDataArray)
  /\ MonthlyStored => MonthlyExact(monthlyData)

\* Both feeds hold a record of one month, and the run has stored the result.
C1_Witness ==
  /\ Succeeded
  /\ \E i \in 1..Len(monthlyData) :
       /\ CountFor(adasData, monthlyData[i].sortKey) >= 1
       /\ CountFor(adsData, monthlyData[i].sortKey) >= 1

-----------------------------------------------------------------------------
(* C2 *)

\* C2: the sequence stored by setMonthlyData is strictly ascending by sortKey
\* in lexicographic order, whatever the records and their order.
C2_StrictlyAscending ==
  \A i \in 1..(Len(monthlyData) - 1) :
    LexLess(monthlyData[i].sortKey, monthlyData[i + 1].sortKey)

\* Two buckets were stored, and the sort had to reorder them.
C2_Witness ==
  /\ Len(monthlyData) >= 2
  /\ monthlyData # MonthlyAccidents(adasData \o adsData)

-----------------------------------------------------------------------------
(* C3 *)

\* C3: after a successful run each feed's total is the sum of the values of
\* its category sequence and the number of its own records whose severity is
\* present, non-empty and not "Unknown".
C3_Totals ==
  Succeeded =>
    /\ totalADAS = SumValues(adasInjuries)
    /\ totalADS = SumValues(adsInjuries)
    /\ totalADAS = Num(Cardinality(CountedRows(adasData)))
    /\ totalADS = Num(Cardinality(CountedRows(adsData)))

-----------------------------------------------------------------------------
(* C4 *)

CategoryWellFormed(items, rows) ==
  /\ \A i \in 1..Len(items) :
       /\ items[i].name \notin {"", "Unknown"}
       /\ items[i].value.t = "number"
       /\ items[i].value.n >= 1
  /\ \A i, j \in 1..Len(items) : items[i].name = items[j].name => i = j
  /\ {items[i].name : i \in 1..Len(items)} = CountedSeverities(rows)

\* C4: in every category sequence no name is "" or "Unknown", every value is
\* a number at least 1, and there is exactly one entry per distinct counted
\* severity of the feed.
C4_Categories ==
  Aggregated =>
    /\ CategoryWellFormed(adasInjuriesData, adasData)
    /\ CategoryWellFormed(adsInjuriesData, adsData)

-----------------------------------------------------------------------------
(* C5 *)

\* A fetch rejected or answered with a status that is no success, or a body
\* could not be decoded.
Failed ==
  \E f \in Feeds : fetchState[f] \in {"notok", "rejected"} \/ textState[f] = "failed"

\* C5: when a fetch or a decode fails no aggregation step runs, the five
\* data fields keep their initial values, and loadData ends with isLoading
\* false and error set to the failure's message.
C5_FailureAborts ==
  Failed =>
    /\ ~Aggregated
    /\ locals = <<<<>>, <<>>, <<>>, <<>>, <<>>>>
    /\ monthlyData = <<>> /\ adasInjuries = <<>> /\ adsInjuries = <<>>
    /\ totalADAS = Num(0) /\ totalADS = Num(0)
    /\ pc = "done" => (~isLoading /\ caught # Null /\ error = caught /\ View = "error")

\* One feed was fetched with success, the other was not, and loadData is over.
C5_Witness ==
  /\ pc = "done"
  /\ fetchState["adas"] = "ok"
  /\ fetchState["ads"] = "notok"
  /\ View = "error"

-----------------------------------------------------------------------------
(* C6 *)

\* C6: both fetches are issued before loadData awaits, a body is decoded only
\* after both fetches resolved with a success status, and no parse or
\* aggregation starts before both bodies are decoded.
C6_FetchBeforeAggregate ==
  /\ pc \notin {"init", "fetchAdas", "fetchAds"} => \A f \in Feeds : fetchState[f] # "idle"
  /\ (\E f \in Feeds : textState[f] # "idle") => \A f \in Feeds : fetchState[f] = "ok"
  /\ (Aggregated \/ locals # <<<<>>, <<>>, <<>>, <<>>, <<>>>>) =>
       \A f \in Feeds : fetchState[f] = "ok" /\ textState[f] = "done"

\* The aggregation has run over two feeds that both hold records.
C6_Witness ==
  /\ pc = "setMonthlyData"
  /\ Len(adasData) >= 1
  /\ Len(adsData) >= 1

-----------------------------------------------------------------------------
(* C7 *)

UndatedCounted(rows) == CountedRows(rows) \ DatedRows(rows)

UndatedStillCounted(items, total, rows) ==
  \A i \in UndatedCounted(rows) :
    /\ \E j \in 1..Len(items) :
         /\ items[j].name = rows[i][SeverityField]
         /\ items[j].value = Num(SeverityCount(rows, rows[i][SeverityField]))
    /\ total = Num(Cardinality(CountedRows(rows)))

\* C7: a record whose Incident Date cannot be parsed adds to no monthly
\* bucket, and is still counted in its feed's category sequence and total
\* when its severity is non-empty and not "Unknown".
C7_UndatedRecords ==
  Succeeded =>
    /\ SumCounts(monthlyData) =
         Cardinality(DatedRows(adasData)) + Cardinality(DatedRows(adsData))
    /\ UndatedStillCounted(adasInjuries, totalADAS, adasData)
    /\ UndatedStillCounted(adsInjuries, totalADS, adsData)

-----------------------------------------------------------------------------
(* C8 *)

\* C8: the view starts as loading, and it changes only from loading: once
\* ready or error is shown it stays.
C8_ViewTransitions ==
  /\ View = "loading"
  /\ [][View' # View => View = "loading"]_vars

\* The view has left loading for ready.
C8_Witness == pc = "done" /\ View = "ready"

-----------------------------------------------------------------------------
(* C9 *)

\* The (year, month) of the records a bucket counts.
YearMonth(bucket) ==
  LET rows == adasData \o adsData
      i == CHOOSE i \in DatedRows(rows) : SortKeyOf(DateOf(rows[i])) = bucket.sortKey
  IN <<DateOf(rows[i]).year, DateOf(rows[i]).month>>

Earlier(a, b) == a[1] < b[1] \/ (a[1] = b[1] /\ a[2] < b[2])

\* C9: the monthly output is in calendar order: a bucket that precedes
\* another is of an earlier (year, month).
C9_Chronological ==
  MonthlyStored =>
    \A i, j \in 1..Len(monthlyData) :
      i < j => Earlier(YearMonth(monthlyData[i]), YearMonth(monthlyData[j]))

-----------------------------------------------------------------------------
(* C10 *)

AllNumbers(items) == \A i \in 1..Len(items) : items[i].value.t = "number"

RECURSIVE NumberSum(_)
NumberSum(items) ==
  IF items = <<>> THEN 0 ELSE Head(items).value.n + NumberSum(Tail(items))

TotalOf(total, items) ==
  /\ total = SumValues(items)
  /\ AllNumbers(items) => total = Num(NumberSum(items))

\* C10: whenever the ready view is shown, the displayed fields are the whole
\* result of one successful run over the fetched bodies, and each total is
\* that of the displayed category sequence.
C10_ReadyIsComplete ==
  (~isLoading /\ error = Null) =>
    /\ \A f \in Feeds : fetchState[f] = "ok" /\ textState[f] = "done"
    /\ monthlyData = MonthlyDataArray(PapaParse(adasText), PapaParse(adsText))
    /\ adasInjuries = InjuriesData(PapaParse(adasText))
    /\ adsInjuries = InjuriesData(PapaParse(adsText))
    /\ TotalOf(totalADAS, adasInjuries)
    /\ TotalOf(totalADS, adsInjuries)

\* The ready view shows a result with buckets and both category sequences.
C10_Witness ==
  /\ View = "ready"
  /\ Len(monthlyData) >= 1
  /\ Len(adasInjuries) >= 1
  /\ Len(adsInjuries) >= 1

=============================================================================
